---- MODULE Spec2Model ----
(***************************************************************************)
(* Model of src/wrapper/java_vm/init_args.rs: InitArgsBuilder (new,        *)
(* option, version, ignore_unrecognized, options, build) and InitArgs      *)
(* (Drop).  Strings are sequences of byte values, the heap is the sequence *)
(* of blocks allocated so far (a block's address is its index), and a      *)
(* block counts how often it has been released.                            *)
(***************************************************************************)
EXTENDS Integers, Sequences, FiniteSets, TLC

VARIABLES
    state,     \* lifecycle: "Configuring", "Failed", "Finalized", "Released"
    builder,   \* the InitArgsBuilder value (the value build() consumed, once built)
    calls,     \* the builder calls made so far, in call order
    result,    \* what build() returned: its tag and the error's payload
    args,      \* <<>> or <<the InitArgs build() returned>>
    heap       \* every block allocated so far; address = index

vars == <<state, builder, calls, result, args, heap>>

\* ------------------------------------------------------------------ bounds

\* Longest chain of builder calls before build().
MaxCalls == 4

\* ------------------------------------------------------------- byte strings

NUL == 0

\* "-Xcheck:jni"
Xcheck == <<45, 88, 99, 104, 101, 99, 107, 58, 106, 110, 105>>
\* "vfprintf"
Vfprintf == <<118, 102, 112, 114, 105, 110, 116, 102>>
\* "abort"
Abort == <<97, 98, 111, 114, 116>>
\* "exit"
Exit == <<101, 120, 105, 116>>
\* "bad\0opt"
BadOpt == <<98, 97, 100, 0, 111, 112, 116>>
\* "\0-D"
NulFirst == <<0, 45, 68>>
\* "exit=true"
ExitTrue == <<101, 120, 105, 116, 61, 116, 114, 117, 101>>
\* "Exit"
ExitUpper == <<69, 120, 105, 116>>
\* "-abort"
DashAbort == <<45, 97, 98, 111, 114, 116>>

\* The strings a caller passes to option().
OptStrings ==
    {Xcheck, Vfprintf, Abort, Exit, BadOpt, NulFirst, ExitTrue, ExitUpper, DashAbort}

\* ------------------------------------------------------------ JNIVersion

JNIVersion == {"V1", "V2", "V4", "V6", "V8"}

\* The tags a caller passes to version(): the lowest, the default and one between.
VersionInputs == {"V1", "V6", "V8"}

\* From<JNIVersion> for jint: JNI_VERSION_1_1 .. JNI_VERSION_1_8.
JNIVersionToJint(v) ==
    CASE v = "V1" -> 65537
      [] v = "V2" -> 65538
      [] v = "V4" -> 65540
      [] v = "V6" -> 65542
      [] v = "V8" -> 65544

\* ------------------------------------------------------------ InitArgsBuilder

\* Default with the lowest version tag.
default_V1 ==
    [opts |-> <<>>, ignore_unrecognized |-> FALSE, version |-> "V1"]

\* impl Default for InitArgsBuilder
default ==
    [opts |-> <<>>, ignore_unrecognized |-> FALSE, version |-> "V8"]

\* InitArgsBuilder::new
new == default

\* IsReserved matching a reserved name at the start of the string.
IsReserved_Prefix(s) ==
    \E r \in {Vfprintf, Abort, Exit} : Len(s) >= Len(r) /\ SubSeq(s, 1, Len(r)) = r

\* IsReserved with the "exit" arm missing.
IsReserved_NoExit(s) == s = Vfprintf \/ s = Abort

\* The match arm "vfprintf" | "abort" | "exit" of option().
IsReserved(s) == s = Vfprintf \/ s = Abort \/ s = Exit

\* option() without the reserved-name match.
option_AlwaysPush(b, opt_string) == [b EXCEPT !.opts = Append(@, opt_string)]

\* InitArgsBuilder::option
option(b, opt_string) ==
    IF IsReserved(opt_string)
    THEN b
    ELSE [b EXCEPT !.opts = Append(@, opt_string)]

\* version() that only replaces the default.
version_FirstWins(b, v) == IF b.version = "V8" THEN [b EXCEPT !.version = v] ELSE b

\* InitArgsBuilder::version
version(b, v) == [b EXCEPT !.version = v]

\* ignore_unrecognized() starting from the defaults of the other settings.
ignore_unrecognized_ResetsVersion(b, ignore) ==
    [b EXCEPT !.ignore_unrecognized = ignore, !.version = "V8"]

\* InitArgsBuilder::ignore_unrecognized
ignore_unrecognized(b, ignore) == [b EXCEPT !.ignore_unrecognized = ignore]

\* options() that hands out the pending options but the last.
options_DropLast(b) == SubSeq(b.opts, 1, Len(b.opts) - 1)

\* InitArgsBuilder::options
options(b) == b.opts

\* ----------------------------------------------------------------- the heap

NULL == 0
\* Vec::with_capacity(0) allocates nothing: its pointer is non-null and dangling.
DANGLING == -1

Block(kind, data) == [kind |-> kind, data |-> data, frees |-> 0]

\* A block allocated and not yet released.
Live(h, a) == a \in 1..Len(h) /\ h[a].frees = 0

\* Releasing the block at address a.
Free(h, a) == [h EXCEPT ![a].frees = @ + 1]

LiveBlocks(h, kind) == {a \in 1..Len(h) : h[a].kind = kind /\ h[a].frees = 0}

\* ------------------------------------------------------------------ CString

HasNul(s) == \E i \in 1..Len(s) : s[i] = NUL

\* CString::new(..)?.into_raw() on a string without a zero byte: a new block
\* holding the bytes and the terminator; the result is its address.
CStringIntoRaw(s, h) ==
    [heap |-> Append(h, Block("CString", Append(s, NUL))), ptr |-> Len(h) + 1]

\* CString::from_raw(ptr), dropped at once: the block is released.
CStringFromRaw(ptr, h) == Free(h, ptr)

\* What a reader of a null-terminated buffer sees: the bytes before the first zero.
RECURSIVE CStrBytes(_)
CStrBytes(buf) ==
    IF buf = <<>> \/ Head(buf) = NUL
    THEN <<>>
    ELSE <<Head(buf)>> \o CStrBytes(Tail(buf))

\* ---------------------------------------------------------------------- Vec

\* Vec::with_capacity(n)
VecWithCapacity(n, h) ==
    IF n = 0
    THEN [heap |-> h, vec |-> [buf |-> DANGLING, items |-> <<>>]]
    ELSE [heap |-> Append(h, Block("Vec", <<>>)),
          vec |-> [buf |-> Len(h) + 1, items |-> <<>>]]

\* push at the front.
VecPush_Front(v, x) == [v EXCEPT !.items = <<x>> \o @]

\* Vec::push within the capacity: no reallocation.
VecPush(v, x) == [v EXCEPT !.items = Append(@, x)]

\* Dropping a Vec<JavaVMOption>: its buffer is released; JavaVMOption has no
\* destructor, so the buffers its raw pointers refer to are left alone.
VecDrop(v, h) == IF v.buf = DANGLING THEN h ELSE Free(h, v.buf)

\* -------------------------------------------------------------------- build

\* NullOptString carrying the string with its zero bytes removed.
NullOptString_Stripped(opt) == <<SelectSeq(opt, LAMBDA c : c # NUL)>>

\* JvmError::NullOptString(opt): the error's payload.
NullOptString(opt) == <<opt>>

\* The JavaVMOption literal with the buffer in both fields.
JavaVMOptionOf_ExtraInfoSet(option_string) ==
    [optionString |-> option_string, extraInfo |-> option_string]

\* The JavaVMOption literal of the loop of build().
JavaVMOptionOf(option_string) ==
    [optionString |-> option_string, extraInfo |-> NULL]

\* The loop of build() going on after an option CString::new rejects, and
\* reporting the last one rejected.
RECURSIVE BuildLoop_ReportsLast(_, _, _)
BuildLoop_ReportsLast(pending, opts, h) ==
    IF pending = <<>>
    THEN [ok |-> TRUE, opts |-> opts, heap |-> h, err |-> <<>>]
    ELSE LET opt == Head(pending) IN
         IF HasNul(opt)
         THEN LET rest == BuildLoop_ReportsLast(Tail(pending), opts, h) IN
              IF rest.ok
              THEN [ok |-> FALSE, opts |-> rest.opts, heap |-> rest.heap,
                    err |-> NullOptString(opt)]
              ELSE rest
         ELSE LET c == CStringIntoRaw(opt, h)
              IN BuildLoop_ReportsLast(Tail(pending), VecPush(opts, JavaVMOptionOf(c.ptr)),
                                       c.heap)

\* The for loop of build(): encodes the pending options in order and stops at
\* the first one CString::new rejects.
RECURSIVE BuildLoop(_, _, _)
BuildLoop(pending, opts, h) ==
    IF pending = <<>>
    THEN [ok |-> TRUE, opts |-> opts, heap |-> h, err |-> <<>>]
    ELSE LET opt == Head(pending) IN
         IF HasNul(opt)
         THEN [ok |-> FALSE, opts |-> opts, heap |-> h, err |-> NullOptString(opt)]
         ELSE LET c == CStringIntoRaw(opt, h)
                  jvm_opt == JavaVMOptionOf(c.ptr)
              IN BuildLoop(Tail(pending), VecPush(opts, jvm_opt), c.heap)

\* bool as jboolean
BoolAsJboolean(b) == IF b THEN 1 ELSE 0

\* The InitArgs literal with the version of Default instead of self.version.
InitArgsOf_DefaultVersion(b, opts) ==
    [inner |-> [version |-> JNIVersionToJint(default.version),
                ignoreUnrecognized |-> BoolAsJboolean(b.ignore_unrecognized),
                options |-> opts.buf,
                nOptions |-> Len(opts.items)],
     opts |-> opts]

\* The InitArgs literal with the pointer of the Vec taken while it was empty
\* and had no buffer.
InitArgsOf_StalePointer(b, opts) ==
    [inner |-> [version |-> JNIVersionToJint(b.version),
                ignoreUnrecognized |-> BoolAsJboolean(b.ignore_unrecognized),
                options |-> DANGLING,
                nOptions |-> Len(opts.items)],
     opts |-> opts]

\* The InitArgs literal build() returns in Ok.
InitArgsOf(b, opts) ==
    [inner |-> [version |-> JNIVersionToJint(b.version),
                ignoreUnrecognized |-> BoolAsJboolean(b.ignore_unrecognized),
                options |-> opts.buf,
                nOptions |-> Len(opts.items)],
     opts |-> opts]

\* InitArgsBuilder::build
build(b, h) ==
    LET v == VecWithCapacity(Len(b.opts), h)
        r == BuildLoop(b.opts, v.vec, v.heap)
    IN IF r.ok
       THEN [tag |-> "Ok",
             err |-> <<>>,
             args |-> <<InitArgsOf(b, r.opts)>>,
             heap |-> r.heap]
       ELSE [tag |-> "Err",
             err |-> r.err,
             args |-> <<>>,
             heap |-> VecDrop(r.opts, r.heap)]

\* --------------------------------------------------------------------- drop

\* The for loop of Drop::drop.
RECURSIVE DropLoop(_, _)
DropLoop(items, h) ==
    IF items = <<>>
    THEN h
    ELSE DropLoop(Tail(items), CStringFromRaw(Head(items).optionString, h))

\* Drop that leaves the release to the Vec's own destructor.
drop_NoLoop(a, h) == VecDrop(a.opts, h)

\* Drop for InitArgs: drop(), then the fields are dropped (the Vec's buffer).
drop(a, h) == VecDrop(a.opts, DropLoop(a.opts.items, h))

\* ----------------------------------------------------------------- InitArgs

\* InitArgs::inner_ptr: a pointer to the field inner of the InitArgs.
inner_ptr(a) == "inner"

\* What the reader of that pointer finds: the record.
Deref(a, p) == a[p]

\* ------------------------------------------------------------------ actions

Call(op, opt, ver, flag, ret) ==
    [op |-> op, opt |-> opt, ver |-> ver, flag |-> flag, ret |-> ret]

NoResult == [tag |-> "None", err |-> <<>>]

Init ==
    /\ state = "Configuring"
    /\ builder = new
    /\ calls = <<>>
    /\ result = NoResult
    /\ args = <<>>
    /\ heap = <<>>

CanCall == state = "Configuring" /\ Len(calls) < MaxCalls

Option ==
    \E s \in OptStrings :
        /\ CanCall
        /\ builder' = option(builder, s)
        /\ calls' = Append(calls, Call("option", s, "-", FALSE, <<>>))
        /\ UNCHANGED <<state, result, args, heap>>

Version ==
    \E v \in VersionInputs :
        /\ CanCall
        /\ builder' = version(builder, v)
        /\ calls' = Append(calls, Call("version", <<>>, v, FALSE, <<>>))
        /\ UNCHANGED <<state, result, args, heap>>

IgnoreUnrecognized ==
    \E ignore \in BOOLEAN :
        /\ CanCall
        /\ builder' = ignore_unrecognized(builder, ignore)
        /\ calls' = Append(calls, Call("ignore_unrecognized", <<>>, "-", ignore, <<>>))
        /\ UNCHANGED <<state, result, args, heap>>

Options ==
    /\ CanCall
    /\ calls' = Append(calls, Call("options", <<>>, "-", FALSE, options(builder)))
    /\ UNCHANGED <<state, builder, result, args, heap>>

Build ==
    /\ state = "Configuring"
    /\ LET r == build(builder, heap) IN
        /\ state' = IF r.tag = "Ok" THEN "Finalized" ELSE "Failed"
        /\ result' = [tag |-> r.tag, err |-> r.err]
        /\ args' = r.args
        /\ heap' = r.heap
    /\ UNCHANGED <<builder, calls>>

Drop ==
    /\ state = "Finalized"
    /\ heap' = drop(args[1], heap)
    /\ state' = "Released"
    /\ UNCHANGED <<builder, calls, result, args>>

\* inner_ptr(&self) forms a pointer and writes nothing: the step leaves the
\* state as it is, and the pointer it returns is inner_ptr(args[1]).
InnerPtr ==
    /\ state = "Finalized"
    /\ Deref(args[1], inner_ptr(args[1])) = args[1].inner
    /\ UNCHANGED vars

Next ==
    \/ Option
    \/ Version
    \/ IgnoreUnrecognized
    \/ Options
    \/ Build
    \/ Drop
    \/ InnerPtr

Spec == Init /\ [][Next]_vars

\* ------------------------------------------------------- claims: vocabulary

\* The names the documentation of option() lists as unsupported.
ReservedNames == {Vfprintf, Abort, Exit}

Built == state \in {"Finalized", "Released"}

\* The InitArgs build() returned.
TheArgs == args[1]

\* The buffers the InitArgs's option descriptors point to.
OwnedBuffers == {TheArgs.opts.items[i].optionString : i \in 1..Len(TheArgs.opts.items)}

\* Indices of the pending options that contain a zero byte.
Offending == {i \in 1..Len(builder.opts) : \E j \in 1..Len(builder.opts[i]) : builder.opts[i][j] = 0}

AllReleasedOnce == \A a \in 1..Len(heap) : heap[a].frees = 1

\* ----------------------------------------------------------------------- C1

\* C1: after a successful build() the InitArgs owns exactly one live encoded
\* buffer per pending option (distinct buffers, and no other encoded buffer
\* is live); after drop every block has been released exactly once: nothing
\* is still allocated and nothing was released twice.
C1_BuffersReleasedExactlyOnce ==
    /\ state = "Finalized" =>
        /\ Len(TheArgs.opts.items) = Len(builder.opts)
        /\ Cardinality(OwnedBuffers) = Len(builder.opts)
        /\ OwnedBuffers = LiveBlocks(heap, "CString")
        /\ \A a \in 1..Len(heap) : heap[a].frees = 0
    /\ state = "Released" =>
        /\ Cardinality(OwnedBuffers) = Len(builder.opts)
        /\ \A a \in OwnedBuffers : heap[a].kind = "CString" /\ heap[a].frees = 1
        /\ AllReleasedOnce

\* An InitArgs with three options has been dropped.
C1_Witness ==
    /\ state = "Released"
    /\ Len(builder.opts) = 3
    /\ Cardinality(OwnedBuffers) = 3

\* ----------------------------------------------------------------------- C2

\* C2: when build() fails on a pending option containing a zero byte, no
\* block is still allocated and none has been released twice, wherever the
\* offending option stands.
C2_FailedHoldsNothing ==
    state = "Failed" => AllReleasedOnce

\* ----------------------------------------------------------------------- C3

\* C3: if a pending option contains a zero byte, build() returns
\* NullOptString carrying, unchanged, a pending option that contains the
\* zero byte, and returns no InitArgs: the lifecycle is in Failed, never in
\* Finalized or Released, so Drop for InitArgs does not run.
C3_NullOptStringNoInitArgs ==
    (state # "Configuring" /\ Offending # {}) =>
        /\ state = "Failed"
        /\ result.tag = "Err"
        /\ Len(result.err) = 1
        /\ \E i \in Offending : result.err[1] = builder.opts[i]
        /\ (Cardinality(Offending) = 1 =>
                \A i \in Offending : result.err[1] = builder.opts[i])
        /\ args = <<>>
        /\ ~ENABLED Drop

\* build() has failed on "bad\0opt", which stood after an accepted option.
C3_Witness ==
    /\ state = "Failed"
    /\ builder.opts = <<Xcheck, BadOpt>>
    /\ result.err = <<BadOpt>>

\* ----------------------------------------------------------------------- C4

\* C4: in every builder state the pending sequence contains none of
\* "vfprintf", "abort", "exit".
C4_NoReservedPending ==
    \A i \in 1..Len(builder.opts) : builder.opts[i] \notin ReservedNames

\* All three reserved names were passed to option(), and so was an accepted one.
C4_Witness ==
    /\ state = "Configuring"
    /\ ReservedNames \subseteq {calls[i].opt : i \in 1..Len(calls)}
    /\ builder.opts # <<>>

\* ----------------------------------------------------------------------- C5

\* The step is a call of option() with a reserved name.
ReservedOptionStep ==
    /\ Len(calls') = Len(calls) + 1
    /\ calls'[Len(calls')].op = "option"
    /\ calls'[Len(calls')].opt \in ReservedNames

\* C5: option(s) with s one of "vfprintf", "abort", "exit" returns the
\* builder unchanged (same pending sequence, same length, elements and
\* order) and reports no error.
C5_ReservedOptionIsNoOp ==
    [][ReservedOptionStep =>
          /\ builder' = builder
          /\ builder'.opts = builder.opts
          /\ state' = "Configuring"
          /\ result' = NoResult]_vars

\* option("exit") was just called on a builder with two pending options.
C5_Witness ==
    /\ Len(calls) = 3
    /\ calls[3].op = "option"
    /\ calls[3].opt = Exit
    /\ Len(builder.opts) = 2

\* ----------------------------------------------------------------------- C6

\* The text a reader of the i-th option descriptor finds.
Decoded(i) == CStrBytes(heap[TheArgs.opts.items[i].optionString].data)

\* C6: when no pending option contains a zero byte, build() returns Ok and
\* the InitArgs has one option descriptor per pending option, in the same
\* order: the i-th buffer decodes to the i-th pending string, and nOptions
\* is that length.
C6_EncodedInOrder ==
    (state # "Configuring" /\ Offending = {}) =>
        /\ Built
        /\ result.tag = "Ok"
        /\ Len(args) = 1
        /\ Len(TheArgs.opts.items) = Len(builder.opts)
        /\ TheArgs.inner.nOptions = Len(builder.opts)
        /\ state = "Finalized" =>
             \A i \in 1..Len(builder.opts) :
                /\ Live(heap, TheArgs.opts.items[i].optionString)
                /\ Decoded(i) = builder.opts[i]

\* Three different options were built, in this order.
C6_Witness ==
    /\ state = "Finalized"
    /\ builder.opts = <<ExitTrue, Xcheck, DashAbort>>
    /\ Decoded(1) = ExitTrue
    /\ Decoded(3) = DashAbort

\* ----------------------------------------------------------------------- C7

\* The arguments of the option() calls among cs, in call order.
RECURSIVE OptionArgs(_)
OptionArgs(cs) ==
    IF cs = <<>>
    THEN <<>>
    ELSE (IF Head(cs).op = "option" THEN <<Head(cs).opt>> ELSE <<>>)
            \o OptionArgs(Tail(cs))

NonReserved(ss) == SelectSeq(ss, LAMBDA s : s \notin ReservedNames)

\* The step is a builder call; LastCall is the call.
CallStep == Len(calls') = Len(calls) + 1
LastCall == calls'[Len(calls')]

\* C7: option(s) with s not reserved, zero bytes or not, appends s as the
\* last pending option and keeps the earlier ones; options() returns the
\* pending options and leaves the builder as it was; so the pending options,
\* and what any options() call returned, are the arguments of the option()
\* calls made before, in call order, without the reserved names.
C7_OptionsAreTheCallArguments ==
    /\ [](/\ builder.opts = NonReserved(OptionArgs(calls))
          /\ \A i \in 1..Len(calls) :
                calls[i].op = "options" =>
                    calls[i].ret = NonReserved(OptionArgs(SubSeq(calls, 1, i - 1))))
    /\ [][CallStep =>
            /\ (LastCall.op = "option" /\ LastCall.opt \notin ReservedNames) =>
                    builder' = [builder EXCEPT !.opts = builder.opts \o <<LastCall.opt>>]
            /\ LastCall.op = "options" =>
                    (builder' = builder /\ LastCall.ret = builder.opts)]_vars

\* options() was called between accepted option() calls, one of them with a
\* zero byte, and after a reserved one.
C7_Witness ==
    /\ state = "Configuring"
    /\ Len(calls) = 4
    /\ calls[1].op = "option" /\ calls[1].opt = BadOpt
    /\ calls[2].op = "option" /\ calls[2].opt = Abort
    /\ calls[3].op = "option" /\ calls[3].opt = Xcheck
    /\ calls[4].op = "options" /\ calls[4].ret = <<BadOpt, Xcheck>>
    /\ builder.opts = <<BadOpt, Xcheck>>

\* ----------------------------------------------------------------------- C8

\* new().option("-Xcheck:jni").option("vfprintf").version(V8).ignore_unrecognized(true)
ScenarioA ==
    << Call("option", Xcheck, "-", FALSE, <<>>),
       Call("option", Vfprintf, "-", FALSE, <<>>),
       Call("version", <<>>, "V8", FALSE, <<>>),
       Call("ignore_unrecognized", <<>>, "-", TRUE, <<>>) >>

\* C8: in the InitArgs of a successful build(), version is the integer
\* constant of the builder's version tag and ignoreUnrecognized is 1 or 0 as
\* the builder's flag is true or false; and scenario A builds Ok with one
\* option that decodes to "-Xcheck:jni", flag 1 and version 0x00010008.
C8_VersionAndFlagCarried ==
    /\ Built =>
        /\ TheArgs.inner.version = JNIVersionToJint(builder.version)
        /\ builder.version = "V8" => TheArgs.inner.version = 65544
        /\ builder.version = "V6" => TheArgs.inner.version = 65542
        /\ builder.version = "V1" => TheArgs.inner.version = 65537
        /\ TheArgs.inner.ignoreUnrecognized = (IF builder.ignore_unrecognized THEN 1 ELSE 0)
    /\ (calls = ScenarioA /\ state # "Configuring") =>
        /\ Built
        /\ result.tag = "Ok"
        /\ TheArgs.inner.nOptions = 1
        /\ TheArgs.inner.ignoreUnrecognized = 1
        /\ TheArgs.inner.version = 65544
        /\ state = "Finalized" => Decoded(1) = Xcheck

\* Scenario A has been built.
C8_Witness ==
    /\ calls = ScenarioA
    /\ state = "Finalized"
    /\ Len(TheArgs.opts.items) = 1

\* ----------------------------------------------------------------------- C9

\* The builder after one more call.
ApplyCall(b, c) ==
    CASE c.op = "option" -> option(b, c.opt)
      [] c.op = "version" -> version(b, c.ver)
      [] c.op = "ignore_unrecognized" -> ignore_unrecognized(b, c.flag)
      [] c.op = "options" -> b

\* The builder after the calls cs on new().
RECURSIVE Replay(_)
Replay(cs) ==
    IF cs = <<>>
    THEN new
    ELSE ApplyCall(Replay(SubSeq(cs, 1, Len(cs) - 1)), cs[Len(cs)])

\* The calls without the one before the last.
WithoutLastButOne(cs) == SubSeq(cs, 1, Len(cs) - 2) \o <<cs[Len(cs)]>>

\* C9: a builder after version(v1) then version(v2) equals the builder
\* after version(v2) alone, and a builder after ignore_unrecognized(b1) then
\* ignore_unrecognized(b2) equals the builder after ignore_unrecognized(b2)
\* alone: options, flag and version all agree.
C9_LastWriteWins ==
    (Len(calls) >= 2
        /\ calls[Len(calls)].op = calls[Len(calls) - 1].op
        /\ calls[Len(calls)].op \in {"version", "ignore_unrecognized"}) =>
            /\ builder = Replay(WithoutLastButOne(calls))
            /\ calls[Len(calls)].op = "version" =>
                    builder.version = calls[Len(calls)].ver
            /\ calls[Len(calls)].op = "ignore_unrecognized" =>
                    builder.ignore_unrecognized = calls[Len(calls)].flag

\* version(V1) then version(V6) were called on a builder with a pending
\* option and the flag set.
C9_Witness ==
    /\ state = "Configuring"
    /\ Len(calls) = 4
    /\ calls[3].op = "version" /\ calls[3].ver = "V1"
    /\ calls[4].op = "version" /\ calls[4].ver = "V6"
    /\ builder = [opts |-> <<Xcheck>>, ignore_unrecognized |-> TRUE, version |-> "V6"]

\* ---------------------------------------------------------------------- C10

\* The version tag with the smallest integer constant.
LowestVersion ==
    CHOOSE v \in JNIVersion :
        \A w \in JNIVersion : JNIVersionToJint(v) <= JNIVersionToJint(w)

\* C10 as stated: new() yields empty pending options, the flag false and the
\* lowest version of the enum.
C10_DefaultIsLowestVersion ==
    (state = "Configuring" /\ calls = <<>>) =>
        /\ builder.opts = <<>>
        /\ builder.ignore_unrecognized = FALSE
        /\ builder.version = LowestVersion

\* C10, amended: new() yields empty pending options, the flag false and
\* version V8, the documented default.
C10_DefaultIsV8 ==
    (state = "Configuring" /\ calls = <<>>) =>
        /\ builder.opts = <<>>
        /\ builder.ignore_unrecognized = FALSE
        /\ builder.version = "V8"

\* The builder straight from new(), and a lower version than its own exists.
C10_Witness ==
    /\ state = "Configuring"
    /\ calls = <<>>
    /\ builder.version = "V8"
    /\ JNIVersionToJint(LowestVersion) < JNIVersionToJint(builder.version)

\* ---------------------------------------------------------------------- C11

\* No option was accepted: none was passed, or only reserved names were.
NoneAccepted == NonReserved(OptionArgs(calls)) = <<>>

\* C11: build() on a builder with no accepted option (none added, or only
\* reserved names added) returns Ok with nOptions 0 and no option
\* descriptor; the InitArgs owns no buffer, nothing was allocated, and
\* dropping it releases nothing.
C11_ZeroOptions ==
    (NoneAccepted /\ state # "Configuring") =>
        /\ Built
        /\ result.tag = "Ok"
        /\ Len(args) = 1
        /\ TheArgs.inner.nOptions = 0
        /\ TheArgs.opts.items = <<>>
        /\ OwnedBuffers = {}
        /\ heap = <<>>

\* Only reserved names were added, and the InitArgs built from them was dropped.
C11_Witness ==
    /\ state = "Released"
    /\ Len(calls) = 3
    /\ \A i \in 1..3 : calls[i].op = "option" /\ calls[i].opt \in ReservedNames
    /\ {calls[i].opt : i \in 1..3} = ReservedNames
    /\ heap = <<>>

\* ---------------------------------------------------------------------- C12

\* C12: as long as the InitArgs is alive (Finalized), the record's options
\* pointer is the pointer of the backing Vec, whose buffer is allocated when
\* there is an option, and nOptions is the Vec's length; the pointer
\* inner_ptr() returns leads to that record; and the only step that changes
\* anything from Finalized is the drop: no other step changes the record,
\* the backing Vec or any block of the heap.
C12_RecordConsistentAndImmutable ==
    /\ [](state = "Finalized" =>
            /\ TheArgs.inner.options = TheArgs.opts.buf
            /\ TheArgs.inner.nOptions = Len(TheArgs.opts.items)
            /\ TheArgs.opts.items # <<>> =>
                    /\ Live(heap, TheArgs.inner.options)
                    /\ heap[TheArgs.inner.options].kind = "Vec"
            /\ TheArgs.opts.items = <<>> => TheArgs.inner.options = DANGLING
            /\ Deref(TheArgs, inner_ptr(TheArgs)) = TheArgs.inner
            /\ ENABLED InnerPtr)
    /\ [][state = "Finalized" =>
            \/ state' = "Released" /\ args' = args
            \/ state' = "Finalized" /\ args' = args /\ heap' = heap]_vars

\* An InitArgs with two options is alive and inner_ptr() leads to its record,
\* whose options pointer is the allocated buffer of the Vec.
C12_Witness ==
    /\ state = "Finalized"
    /\ ENABLED InnerPtr
    /\ Deref(TheArgs, inner_ptr(TheArgs)).nOptions = 2
    /\ Live(heap, Deref(TheArgs, inner_ptr(TheArgs)).options)

\* ---------------------------------------------------------------------- C13

\* The lifecycle's transitions.
LifecycleEdges ==
    { <<"Configuring", "Configuring">>, <<"Configuring", "Failed">>,
      <<"Configuring", "Finalized">>, <<"Finalized", "Released">> }

\* C13, the lifecycle alone: a step that changes anything follows an edge of
\* the lifecycle; once build() has run, the builder and its call history
\* never change again and build() cannot run a second time; nothing changes
\* in Failed or Released.
C13_TransitionsOnly ==
    /\ [][/\ <<state, state'>> \in LifecycleEdges
          /\ state # "Configuring" => (builder' = builder /\ calls' = calls)
          /\ state = "Configuring" /\ state' # "Configuring" => calls' = calls]_vars
    /\ [](state # "Configuring" =>
            ~ENABLED (Option \/ Version \/ IgnoreUnrecognized \/ Options \/ Build))
    /\ [](state \in {"Failed", "Released"} => ~ENABLED Next)

\* C13 as stated: the lifecycle only takes Configuring -> Failed,
\* Configuring -> Finalized and Finalized -> Released, build() runs at most
\* once and ends Configuring for good, Failed and Released are terminal, and
\* blocks are allocated only in Finalized.
C13_LifecycleHoldsBuffersOnlyInFinalized ==
    /\ C13_TransitionsOnly
    /\ [](state # "Finalized" => \A a \in 1..Len(heap) : ~Live(heap, a))

\* ---------------------------------------------------------------------- C14

\* Strings that contain a reserved name or differ from one in case only.
NearMisses == {ExitTrue, ExitUpper, DashAbort}

\* s is, byte for byte, one of the three literals.
IsLiteral(s) ==
    \/ s = <<118, 102, 112, 114, 105, 110, 116, 102>>
    \/ s = <<97, 98, 111, 114, 116>>
    \/ s = <<101, 120, 105, 116>>

\* The texts of the built record's options, in order.
DecodedOptions == [i \in 1..Len(TheArgs.opts.items) |-> Decoded(i)]

\* C14: the filter of option() is an exact, case-sensitive match of the
\* whole string: option(s) with s different from the three literals, as
\* "exit=true", "Exit" and "-abort" are, appends s to the pending options,
\* and every such s is among the options of the record build() returns.
C14_ExactMatchOnly ==
    /\ [][(CallStep /\ LastCall.op = "option" /\ ~IsLiteral(LastCall.opt)) =>
            builder'.opts = Append(builder.opts, LastCall.opt)]_vars
    /\ [](\A i \in 1..Len(calls) :
            (calls[i].op = "option" /\ ~IsLiteral(calls[i].opt)) =>
                /\ \E j \in 1..Len(builder.opts) : builder.opts[j] = calls[i].opt
                /\ state = "Finalized" =>
                        \E j \in 1..Len(DecodedOptions) : DecodedOptions[j] = calls[i].opt)
    /\ [](state = "Finalized" =>
            DecodedOptions = SelectSeq(OptionArgs(calls), LAMBDA s : ~IsLiteral(s)))

\* "exit=true", "Exit" and "-abort" were added next to "exit" and built.
C14_Witness ==
    /\ state = "Finalized"
    /\ Len(calls) = 4
    /\ {calls[i].opt : i \in 1..4} = NearMisses \cup {Exit}
    /\ Len(DecodedOptions) = 3
    /\ {DecodedOptions[j] : j \in 1..3} = NearMisses

\* ---------------------------------------------------------------------- C15

\* C15: in every InitArgs build() returned, each option descriptor has a
\* null extraInfo, and its optionString is the address of an encoded buffer
\* of its own, allocated by this build() and, while the InitArgs is alive,
\* not released.
C15_ExtraInfoNullTextOwned ==
    Built =>
        \A i \in 1..Len(TheArgs.opts.items) :
            LET d == TheArgs.opts.items[i] IN
            /\ d.extraInfo = 0
            /\ d.optionString \in 1..Len(heap)
            /\ d.optionString # 0
            /\ heap[d.optionString].kind = "CString"
            /\ \A j \in 1..Len(TheArgs.opts.items) :
                    j # i => TheArgs.opts.items[j].optionString # d.optionString
            /\ state = "Finalized" => Live(heap, d.optionString)

\* An InitArgs with three option descriptors is alive.
C15_Witness ==
    /\ state = "Finalized"
    /\ Len(TheArgs.opts.items) = 3
    /\ \A i \in 1..3 : TheArgs.opts.items[i].extraInfo = 0

\* ---------------------------------------------------------------------- C16

\* The position of the first pending option that contains a zero byte.
FirstOffending == CHOOSE k \in Offending : \A i \in Offending : k <= i

\* The buffers build() encoded, in the order of their allocation.
EncodedBuffers == SelectSeq(heap, LAMBDA blk : blk.kind = "CString")

\* C16: when several pending options contain a zero byte, NullOptString
\* carries the first of them, in insertion order, and exactly the options
\* before it were encoded: none after it.
C16_FirstOffenderReported ==
    (state # "Configuring" /\ Offending # {}) =>
        /\ state = "Failed"
        /\ result.err = <<builder.opts[FirstOffending]>>
        /\ Len(EncodedBuffers) = FirstOffending - 1
        /\ \A j \in 1..Len(EncodedBuffers) :
                CStrBytes(EncodedBuffers[j].data) = builder.opts[j]

\* Two different options with a zero byte were pending, with accepted
\* options before, between and after them.
C16_Witness ==
    /\ state = "Failed"
    /\ builder.opts = <<Xcheck, NulFirst, ExitTrue, BadOpt>>
    /\ result.err = <<NulFirst>>
    /\ Len(EncodedBuffers) = 1

\* ---------------------------------------------------------------------- C17

\* The indices of the calls of op among cs.
CallsOf(cs, op) == {i \in 1..Len(cs) : cs[i].op = op}

Latest(S) == CHOOSE i \in S : \A j \in S : j <= i

\* The argument of the last version() call, or the version of new().
VersionAsked(cs) ==
    IF CallsOf(cs, "version") = {} THEN "V8" ELSE cs[Latest(CallsOf(cs, "version"))].ver

\* The argument of the last ignore_unrecognized() call, or the flag of new().
IgnoreAsked(cs) ==
    IF CallsOf(cs, "ignore_unrecognized") = {}
    THEN FALSE
    ELSE cs[Latest(CallsOf(cs, "ignore_unrecognized"))].flag

\* C17: option() leaves version and the flag as they were, version() leaves
\* the pending options and the flag, ignore_unrecognized() leaves the
\* pending options and version; so the builder, and the record built from
\* it, are given by the option() arguments in call order, the last
\* version() argument and the last ignore_unrecognized() argument, however
\* the calls were interleaved.
C17_CallsChangeOnlyTheirField ==
    /\ [][CallStep =>
            /\ LastCall.op = "option" =>
                    /\ builder'.version = builder.version
                    /\ builder'.ignore_unrecognized = builder.ignore_unrecognized
            /\ LastCall.op = "version" =>
                    /\ builder'.opts = builder.opts
                    /\ builder'.ignore_unrecognized = builder.ignore_unrecognized
            /\ LastCall.op = "ignore_unrecognized" =>
                    /\ builder'.opts = builder.opts
                    /\ builder'.version = builder.version]_vars
    /\ [](builder = [opts |-> NonReserved(OptionArgs(calls)),
                     ignore_unrecognized |-> IgnoreAsked(calls),
                     version |-> VersionAsked(calls)])
    /\ [](state = "Finalized" =>
            /\ TheArgs.inner.version = JNIVersionToJint(VersionAsked(calls))
            /\ TheArgs.inner.ignoreUnrecognized = (IF IgnoreAsked(calls) THEN 1 ELSE 0)
            /\ TheArgs.inner.nOptions = Len(NonReserved(OptionArgs(calls)))
            /\ DecodedOptions = NonReserved(OptionArgs(calls)))

\* version() and ignore_unrecognized() were called between option() calls,
\* before the last of them, and the record was built.
C17_Witness ==
    /\ state = "Finalized"
    /\ Len(calls) = 4
    /\ calls[1].op = "version" /\ calls[1].ver = "V1"
    /\ calls[2].op = "option" /\ calls[2].opt = Xcheck
    /\ calls[3].op = "ignore_unrecognized" /\ calls[3].flag = TRUE
    /\ calls[4].op = "option" /\ calls[4].opt = ExitTrue
    /\ TheArgs.inner.version = 65537
    /\ TheArgs.inner.ignoreUnrecognized = 1
    /\ DecodedOptions = <<Xcheck, ExitTrue>>

====
